---- MODULE Spec2Model ----
(***************************************************************************)
(* Model of the /verify pipeline of backend/main.py: claim extraction,     *)
(* evidence retrieval, NLI verification, verdict aggregation and summary.  *)
(*                                                                         *)
(* Floats are fixed-point hundredths: 0.70 is 70, 1.0 is ONE = 100.        *)
(* A JSON value is a record [t, s, n, l]: t its kind ("missing" when the   *)
(* key is absent), s its string, n its number (hundredths where the field  *)
(* is a score), l its list items.                                          *)
(***************************************************************************)
EXTENDS Integers, Sequences, FiniteSets, TLC

\* ------------------------------------------------------------------ bounds
\* Longest list of raw claim entries the LLM returns in the pipeline runs.
MaxClaims == 2

\* ------------------------------------------------------- program constants
ONE == 100
MIN_CONFIDENCE == 10
VERIFIED_MIN_S == 70
VERIFIED_MAX_C == 30
PARTIAL_MIN_S == 35
PARTIAL_MIN_C == 30
TOPIC_CAP == 3
DEFAULT_TOKENS == 10
DEFAULT_MAX_RESULTS == 5
HTTP_500 == 500
HTTP_502 == 502

\* ------------------------------------------------------------- JSON values
JMissing == [t |-> "missing", s |-> "", n |-> 0, l |-> <<>>]
JNull == [t |-> "null", s |-> "", n |-> 0, l |-> <<>>]
JStr(x) == [t |-> "str", s |-> x, n |-> 0, l |-> <<>>]
JNum(x) == [t |-> "num", s |-> "", n |-> x, l |-> <<>>]
JNaN == [t |-> "nan", s |-> "", n |-> 0, l |-> <<>>]
JList(x) == [t |-> "list", s |-> "", n |-> 0, l |-> x]
JDict(x) == [t |-> "dict", s |-> x, n |-> 0, l |-> <<>>]

\* Python truthiness of a JSON value (what `x or default` tests).
Truthy(j) ==
    CASE j.t = "missing" -> FALSE
      [] j.t = "null" -> FALSE
      [] j.t = "str" -> j.s # ""
      [] j.t = "num" -> j.n # 0
      [] j.t = "nan" -> TRUE
      [] j.t = "list" -> j.l # <<>>
      [] j.t = "dict" -> j.s # "{}"
      [] OTHER -> FALSE

Min(a, b) == IF b < a THEN b ELSE a
Max(a, b) == IF b > a THEN b ELSE a

\* ------------------------------------------------------- LLM call primitive
\* The text a chat call returns is a sequence of tokens: "w" a word of prose,
\* "{" and "}" braces, "kv" the members of an object, "[]" a JSON array.
Tokens == {"w", "{", "}", "kv", "[]"}

\* json.loads: the kind of value the whole text parses to, or "error".
json_loads(text) ==
    CASE text = <<"{", "kv", "}">> -> "object"
      [] text = <<"[]">> -> "array"
      [] OTHER -> "error"

Positions(text, tok) == {i \in 1..Len(text) : text[i] = tok}
SetMin(S) == CHOOSE x \in S : \A y \in S : x <= y
SetMax(S) == CHOOSE x \in S : \A y \in S : x >= y

\* _call_grok_api: [ok, status, text]. A missing key fails before the call,
\* a transport error and a non-2xx status fail with 502.
call_grok_api(key, outcome) ==
    IF ~key THEN [ok |-> FALSE, status |-> HTTP_500, text |-> <<>>]
    ELSE IF outcome.kind \in {"transport", "http_status"}
         THEN [ok |-> FALSE, status |-> HTTP_502, text |-> <<>>]
         ELSE [ok |-> TRUE, status |-> 0, text |-> outcome.text]

\* The second attempt of _chat_json: the text from the first "{" to the last "}".
BraceSlice(text) ==
    IF Positions(text, "{") = {} \/ Positions(text, "}") = {} THEN <<>>
    ELSE SubSeq(text, SetMin(Positions(text, "{")), SetMax(Positions(text, "}")))

\* _chat_json: [ok, status, kind], kind the kind of JSON value returned.
chat_json(key, outcome) ==
    LET raw == call_grok_api(key, outcome)
        direct == json_loads(raw.text)
        second == json_loads(BraceSlice(raw.text))
    IN  IF ~raw.ok THEN [ok |-> FALSE, status |-> raw.status, kind |-> "none"]
        ELSE IF direct # "error" THEN [ok |-> TRUE, status |-> 0, kind |-> direct]
        ELSE IF second # "error" THEN [ok |-> TRUE, status |-> 0, kind |-> second]
        ELSE [ok |-> FALSE, status |-> HTTP_500, kind |-> "none"]

\* ------------------------------------------------------ pydantic validation
\* A field declared str accepts a string only; one declared List accepts a list
\* only; one declared Dict accepts a dict only (None is never accepted).
ValidStr(j) == j.t = "str"
ValidList(j) == j.t = "list"
ValidDict(j) == j.t = "dict"

\* ------------------------------------------------- Step 1: claim extraction
NoClaim ==
    [claim_id |-> "", text |-> "", claim_type |-> "", tokens |-> 0,
     extracted_entities |-> <<>>, char_span |-> <<>>]

\* f"c{i}"
SynthId(i) == "c" \o ToString(i)

\* int(x): [ok, val]. A number converts, a string converts when it spells one.
PyInt(j) ==
    CASE j.t = "num" -> [ok |-> TRUE, val |-> j.n]
      [] j.t = "str" /\ j.s = "12" -> [ok |-> TRUE, val |-> 12]
      [] OTHER -> [ok |-> FALSE, val |-> 0]

\* c.get(key, default): the default stands in for an absent key only.
GetOr(j, default) == IF j.t = "missing" THEN default ELSE j

\* Mutant: tokens is read as c["tokens"], so an entry lacking it raises.
ParseEntryStrict(i, c) ==
    LET cid == IF Truthy(c.claim_id) THEN c.claim_id ELSE JStr(SynthId(i))
        ctype == GetOr(c.claim_type, JStr("categorical"))
        toks == PyInt(c.tokens)
        ents == IF Truthy(c.extracted_entities) THEN c.extracted_entities ELSE JList(<<>>)
        span == IF Truthy(c.char_span) THEN c.char_span ELSE JList(<<0, 0>>)
        good == /\ c.isdict
                /\ c.text.t # "missing"
                /\ toks.ok
                /\ ValidStr(cid) /\ ValidStr(c.text) /\ ValidStr(ctype)
                /\ ValidList(ents) /\ ValidList(span)
    IN  IF good
        THEN [ok |-> TRUE,
              claim |-> [claim_id |-> cid.s, text |-> c.text.s, claim_type |-> ctype.s,
                         tokens |-> toks.val, extracted_entities |-> ents.l,
                         char_span |-> span.l]]
        ELSE [ok |-> FALSE, claim |-> NoClaim]

\* The body of the loop of extract_claims for entry c at 1-based index i:
\* [ok, claim]; ok is FALSE when the entry raises and is skipped.
ParseEntry(i, c) ==
    LET cid == IF Truthy(c.claim_id) THEN c.claim_id ELSE JStr(SynthId(i))
        ctype == GetOr(c.claim_type, JStr("categorical"))
        toks == PyInt(GetOr(c.tokens, JNum(DEFAULT_TOKENS)))
        ents == IF Truthy(c.extracted_entities) THEN c.extracted_entities ELSE JList(<<>>)
        span == IF Truthy(c.char_span) THEN c.char_span ELSE JList(<<0, 0>>)
        good == /\ c.isdict
                /\ c.text.t # "missing"
                /\ toks.ok
                /\ ValidStr(cid) /\ ValidStr(c.text) /\ ValidStr(ctype)
                /\ ValidList(ents) /\ ValidList(span)
    IN  IF good
        THEN [ok |-> TRUE,
              claim |-> [claim_id |-> cid.s, text |-> c.text.s, claim_type |-> ctype.s,
                         tokens |-> toks.val, extracted_entities |-> ents.l,
                         char_span |-> span.l]]
        ELSE [ok |-> FALSE, claim |-> NoClaim]

RECURSIVE ParseFrom(_, _)
ParseFrom(raw, i) ==
    IF i > Len(raw) THEN <<>>
    ELSE LET p == ParseEntry(i, raw[i])
         IN  (IF p.ok THEN <<p.claim>> ELSE <<>>) \o ParseFrom(raw, i + 1)

\* The loop of extract_claims over data["claims"].
ParseClaims(raw) == ParseFrom(raw, 1)

\* extract_claims: [ok, error, status, claims]. data is the object the LLM text
\* denotes: [claims_t, entries], claims_t the kind of its "claims" value.
extract_claims(key, outcome, data) ==
    LET r == chat_json(key, outcome)
    IN  IF ~r.ok
        THEN [ok |-> FALSE, error |-> "HTTPException", status |-> r.status, claims |-> <<>>]
        ELSE IF r.kind # "object"
        THEN [ok |-> FALSE, error |-> "AttributeError", status |-> HTTP_500, claims |-> <<>>]
        ELSE IF data.claims_t = "missing"
        THEN [ok |-> TRUE, error |-> "", status |-> 0, claims |-> <<>>]
        ELSE IF data.claims_t # "list"
        THEN [ok |-> FALSE, error |-> "TypeError", status |-> HTTP_500, claims |-> <<>>]
        ELSE [ok |-> TRUE, error |-> "", status |-> 0, claims |-> ParseClaims(data.entries)]

\* ------------------------------------------------- Step 2: evidence retrieval
\* One snippet: EvidenceSnippet(source, title, url, snippet).
Snippet(title, url, text) ==
    [source |-> "web:ddg", title |-> title, url |-> url, snippet |-> text]

\* The related-topic loop over an already sliced list of topics.
RECURSIVE TopicSnippets(_)
TopicSnippets(topics) ==
    IF topics = <<>> THEN <<>>
    ELSE LET tp == Head(topics)
         IN  (IF tp.isdict /\ tp.Text # ""
              THEN <<Snippet(tp.FirstURL, tp.FirstURL, tp.Text)>>
              ELSE <<>>) \o TopicSnippets(Tail(topics))

\* data.get("RelatedTopics", [])[:3]
TopicSlice(topics) == SubSeq(topics, 1, Min(Len(topics), TOPIC_CAP))

\* retrieve_evidence_for_claim: [ok, error, snippets]. res is the outcome of the
\* search call: [kind, body]; body = [shape, Abstract, Heading, AbstractURL,
\* topics_t, RelatedTopics]. Only the call and the body's decoding are inside
\* the try block.
retrieve_evidence_for_claim(claim, max_results, res) ==
    IF res.kind \in {"network_error", "timeout", "http_status", "bad_json"}
    THEN [ok |-> TRUE, error |-> "", snippets |-> <<>>]
    ELSE IF res.body.shape # "dict"
    THEN [ok |-> FALSE, error |-> "AttributeError", snippets |-> <<>>]
    ELSE IF res.body.topics_t \notin {"missing", "list"}
    THEN [ok |-> FALSE, error |-> "TypeError", snippets |-> <<>>]
    ELSE [ok |-> TRUE, error |-> "",
          snippets |->
              (IF res.body.Abstract # ""
               THEN <<Snippet(res.body.Heading, res.body.AbstractURL, res.body.Abstract)>>
               ELSE <<>>)
              \o TopicSnippets(TopicSlice(res.body.RelatedTopics))]

\* ------------------------------------------------ Step 3: claim verification
Labels == {"SUPPORT", "CONTRADICT", "NEUTRAL"}

\* str.upper() on the label strings the model draws.
Upper(x) ==
    CASE x = "support" -> "SUPPORT"
      [] x = "Contradict" -> "CONTRADICT"
      [] x = "neutral" -> "NEUTRAL"
      [] x = "maybe" -> "MAYBE"
      [] OTHER -> x

\* str(x).upper() for a JSON value: None gives "NONE", a number its digits.
StrUpper(j) ==
    CASE j.t = "str" -> Upper(j.s)
      [] j.t = "null" -> "NONE"
      [] j.t = "num" -> ToString(j.n)
      [] OTHER -> "<REPR>"

\* float(x): [ok, nan, val] in hundredths. A number converts, a string when it
\* spells one; None, a list and other strings raise.
PyFloat(j) ==
    CASE j.t = "num" -> [ok |-> TRUE, nan |-> FALSE, val |-> j.n]
      [] j.t = "nan" -> [ok |-> TRUE, nan |-> TRUE, val |-> 0]
      [] j.t = "str" /\ j.s = "0.9" -> [ok |-> TRUE, nan |-> FALSE, val |-> 90]
      [] OTHER -> [ok |-> FALSE, nan |-> FALSE, val |-> 0]

\* max(0.0, min(1.0, score)); min(1.0, nan) is 1.0 since nan < 1.0 is false.
Clamp01(f) == IF f.nan THEN ONE ELSE Max(0, Min(ONE, f.val))

NoVerification ==
    [claim_id |-> "", label |-> "", entailment_score |-> 0, extracted_facts |-> "",
     explanation |-> "", evidence_used |-> <<>>]

\* The normalisation of verify_claim_with_evidence after _chat_json returned the
\* object data = [label, entailment_score, extracted_facts, explanation]:
\* [ok, verification, field]; ok is FALSE when ClaimVerification(...) fails
\* validation, field then names the first offending field.
NormalizeVerification(claim, evidence, data) ==
    LET up == StrUpper(GetOr(data.label, JStr("NEUTRAL")))
        label == IF up \in Labels THEN up ELSE "NEUTRAL"
        f == PyFloat(GetOr(data.entailment_score, JNum(0)))
        score == IF f.ok THEN f ELSE [ok |-> TRUE, nan |-> FALSE, val |-> 0]
        facts == IF Truthy(data.extracted_facts) THEN data.extracted_facts ELSE JDict("{}")
        expl == GetOr(data.explanation, JStr(""))
    IN  IF ValidDict(facts) /\ ValidStr(expl)
        THEN [ok |-> TRUE,
              verification |->
                  [claim_id |-> claim.claim_id, label |-> label,
                   entailment_score |-> Clamp01(score), extracted_facts |-> facts.s,
                   explanation |-> expl.s, evidence_used |-> evidence],
              field |-> ""]
        ELSE [ok |-> FALSE, verification |-> NoVerification,
              field |-> IF ValidDict(facts) THEN "explanation" ELSE "extracted_facts"]

\* Mutant: an LLM failure is swallowed and a NEUTRAL judgment stands in.
verify_claim_with_evidence_tolerant(key, claim, evidence, outcome, data) ==
    LET r == chat_json(key, outcome)
        v == NormalizeVerification(claim, evidence, data)
        neutral == [claim_id |-> claim.claim_id, label |-> "NEUTRAL",
                    entailment_score |-> 0, extracted_facts |-> "{}",
                    explanation |-> "", evidence_used |-> evidence]
    IN  IF ~r.ok \/ r.kind # "object"
        THEN [ok |-> TRUE, error |-> "", status |-> 0, verification |-> neutral]
        ELSE IF ~v.ok
        THEN [ok |-> FALSE, error |-> "ValidationError: " \o v.field, status |-> HTTP_500,
              verification |-> NoVerification]
        ELSE [ok |-> TRUE, error |-> "", status |-> 0, verification |-> v.verification]

\* verify_claim_with_evidence: [ok, error, status, verification].
verify_claim_with_evidence(key, claim, evidence, outcome, data) ==
    LET r == chat_json(key, outcome)
        v == NormalizeVerification(claim, evidence, data)
    IN  IF ~r.ok
        THEN [ok |-> FALSE, error |-> "HTTPException", status |-> r.status,
              verification |-> NoVerification]
        ELSE IF r.kind # "object"
        THEN [ok |-> FALSE, error |-> "AttributeError", status |-> HTTP_500,
              verification |-> NoVerification]
        ELSE IF ~v.ok
        THEN [ok |-> FALSE, error |-> "ValidationError: " \o v.field, status |-> HTTP_500,
              verification |-> NoVerification]
        ELSE [ok |-> TRUE, error |-> "", status |-> 0, verification |-> v.verification]

\* ------------------------------------------- Step 4: truth scoring & verdicts
\* Mutant: the score counts as support whatever the label.
SupportScoreAlways(verification) == verification.entailment_score

\* Mutant: every label but CONTRADICT counts as support.
SupportScoreLoose(verification) ==
    IF verification.label # "CONTRADICT" THEN verification.entailment_score ELSE 0

SupportScore(verification) ==
    IF verification.label = "SUPPORT" THEN verification.entailment_score ELSE 0

ContradictScore(verification) ==
    IF verification.label = "CONTRADICT" THEN verification.entailment_score ELSE 0

TruthScore(S, C) == Max(0, Min(ONE, S - C))

\* Mutant: the stronger of the two scores sets the confidence.
ConfidenceEither(S, C) == Max(MIN_CONFIDENCE, Max(S, C))

Confidence(S, C) == Max(MIN_CONFIDENCE, S)

\* Mutant: the VERIFIED threshold is exclusive.
VerdictOfStrict(S, C) ==
    IF S > VERIFIED_MIN_S /\ C < VERIFIED_MAX_C THEN "VERIFIED"
    ELSE IF S >= PARTIAL_MIN_S /\ C >= PARTIAL_MIN_C THEN "PARTIALLY_SUPPORTED"
    ELSE "UNVERIFIED"

VerdictOf(S, C) ==
    IF S >= VERIFIED_MIN_S /\ C < VERIFIED_MAX_C THEN "VERIFIED"
    ELSE IF S >= PARTIAL_MIN_S /\ C >= PARTIAL_MIN_C THEN "PARTIALLY_SUPPORTED"
    ELSE IF S = 0 /\ C = 0 THEN "UNVERIFIED"
    ELSE "UNVERIFIED"

aggregate_verdict(claim, verification) ==
    LET S == SupportScore(verification)
        C == ContradictScore(verification)
    IN  [claim_id |-> claim.claim_id,
         claim_text |-> claim.text,
         label |-> verification.label,
         score |-> TruthScore(S, C),
         confidence |-> Confidence(S, C),
         verdict |-> VerdictOf(S, C),
         rationale |-> verification.explanation,
         evidence_used |-> verification.evidence_used]

\* ------------------------------------------------------------ Step 5: summary
\* summarize_overall: [ok, error, status, summary]; data = [summary, text,
\* overall], summary the JSON value returned (the first truthy of the three
\* keys, else json.dumps(data), a string).
summarize_overall(key, verdicts, outcome, data) ==
    LET r == chat_json(key, outcome)
        pick == IF Truthy(data.summary) THEN data.summary
                ELSE IF Truthy(data.text) THEN data.text
                ELSE IF Truthy(data.overall) THEN data.overall
                ELSE JStr("<json.dumps(data)>")
    IN  IF ~r.ok
        THEN [ok |-> FALSE, error |-> "HTTPException", status |-> r.status, summary |-> JNull]
        ELSE IF r.kind # "object"
        THEN [ok |-> FALSE, error |-> "AttributeError", status |-> HTTP_500, summary |-> JNull]
        ELSE [ok |-> TRUE, error |-> "", status |-> 0, summary |-> pick]

\* ------------------------------------------------------------- the pipeline
FALLBACK_SUMMARY == "No factual claims were detected in the input."

NoVerdict ==
    [claim_id |-> "", claim_text |-> "", label |-> "", score |-> 0, confidence |-> 0,
     verdict |-> "", rationale |-> "", evidence_used |-> <<>>]

NoResponse ==
    [returned |-> FALSE, claims |-> <<>>, verifications |-> <<>>, overall_summary |-> ""]

NoFailure == [at |-> "", error |-> "", status |-> 0]

\* VerifyResponse(...): job_id, run_id, created_at and original_text are opaque
\* and left out.
VerifyResponse(cl, vs, overall) ==
    [returned |-> TRUE, claims |-> cl, verifications |-> vs, overall_summary |-> overall]

\* Mutant: no early return, an empty claim list falls through the loop.
AfterExtractNoReturn(cl) == IF cl = <<>> THEN "summarize" ELSE "retrieve"

\* `if not claims:` after extraction.
AfterExtract(cl) == IF cl = <<>> THEN "no_claims" ELSE "retrieve"

\* Mutant: the loop stops one claim early.
LoopHasNextShort(i, cl) == i + 1 < Len(cl)

\* `for claim in claims:` whether another claim follows the i-th.
LoopHasNext(i, cl) == i < Len(cl)

\* Mutant: the verdict is inserted at the front.
PrependTo(vs, v) == <<v>> \o vs

\* verifications.append(verdict)
AppendTo(vs, v) == Append(vs, v)

\* Mutant: evidence is retrieved for the first claim only.
StepAfterHoisted(p, i, cl) ==
    CASE p = "extract" -> IF cl = <<>> THEN "no_claims" ELSE "retrieve"
      [] p = "no_claims" -> "done"
      [] p = "retrieve" -> "verify"
      [] p = "verify" -> "aggregate"
      [] p = "aggregate" -> "append"
      [] p = "append" -> IF i < Len(cl) THEN "verify" ELSE "summarize"
      [] p = "summarize" -> "respond"
      [] p = "respond" -> "done"
      [] OTHER -> p

\* Program order of verify(): the position after the step at position p
\* completes without raising, for the i-th of the claims cl.
StepAfter(p, i, cl) ==
    CASE p = "extract" -> AfterExtract(cl)
      [] p = "no_claims" -> "done"
      [] p = "retrieve" -> "verify"
      [] p = "verify" -> "aggregate"
      [] p = "aggregate" -> "append"
      [] p = "append" -> IF LoopHasNext(i, cl) THEN "retrieve" ELSE "summarize"
      [] p = "summarize" -> "respond"
      [] p = "respond" -> "done"
      [] OTHER -> p

VARIABLES
    pc,             \* position in verify()
    GROK_API_KEY,   \* whether the key is configured
    claims,         \* verify: claims
    idx,            \* verify: 1-based index of the loop's current claim
    evidence,       \* verify: evidence
    verification,   \* verify: verification
    verdict,        \* verify: verdict
    verifications,  \* verify: verifications
    overall,        \* verify: overall (a JSON value)
    response,       \* what verify() returned
    failure,        \* the exception verify() ended with
    calls,          \* history: the components invoked, in order
    summaryArg,     \* history: the verdict list handed to summarize_overall
    llmFault,       \* history: an LLM call failed or gave no JSON object
    lastLLM,        \* history: the kind of value the last LLM call parsed to
    raw_claims,     \* extract_claims: raw_claims, while the function runs on its own
    max_results,    \* retrieve_evidence_for_claim: max_results
    search          \* retrieve_evidence_for_claim: the search call's pending answer

vars ==
    <<pc, GROK_API_KEY, claims, idx, evidence, verification, verdict, verifications,
      overall, response, failure, calls, summaryArg, llmFault, lastLLM,
      raw_claims, max_results, search>>

Call(op, i) == [op |-> op, i |-> i]

\* ----------------------------------------------- what the services may answer
Texts ==
    { <<"{", "kv", "}">>,
      <<"w", "{", "kv", "}", "w">>,
      <<"w">>,
      <<"[]">>,
      <<"{", "kv">>,
      <<"}", "w", "{">>,
      <<"{", "kv", "}", "w", "{", "kv", "}">> }

LLMOutcomes ==
    {[kind |-> "transport", text |-> <<>>], [kind |-> "http_status", text |-> <<>>]}
    \cup {[kind |-> "text", text |-> t] : t \in Texts}

Entry(d, cid, text, ctype, toks, ents, span) ==
    [isdict |-> d, claim_id |-> cid, text |-> text, claim_type |-> ctype,
     tokens |-> toks, extracted_entities |-> ents, char_span |-> span]

RunEntries ==
    { Entry(TRUE, JMissing, JStr("Paris is the capital of France"),
            JMissing, JMissing, JMissing, JMissing),
      Entry(TRUE, JStr("c2"), JStr("The tower was built in 1889"), JStr("temporal"),
            JNum(7), JList(<<"1889">>), JList(<<0, 27>>)),
      Entry(TRUE, JStr("c9"), JMissing, JStr("causal"), JNum(3), JMissing, JMissing),
      Entry(FALSE, JMissing, JMissing, JMissing, JMissing, JMissing, JMissing) }

SeqsUpTo(S, n) == UNION {[1..k -> S] : k \in 0..n}

ExtractData ==
    {[claims_t |-> "missing", entries |-> <<>>], [claims_t |-> "null", entries |-> <<>>]}
    \cup {[claims_t |-> "list", entries |-> e] : e \in SeqsUpTo(RunEntries, MaxClaims)}

Topic(d, text, url) == [isdict |-> d, Text |-> text, FirstURL |-> url]

Body(shape, abstract, heading, url, tt, topics) ==
    [shape |-> shape, Abstract |-> abstract, Heading |-> heading, AbstractURL |-> url,
     topics_t |-> tt, RelatedTopics |-> topics]

EmptyBody == Body("dict", "", "", "", "missing", <<>>)

RunBodies ==
    { EmptyBody,
      Body("dict", "Paris is the capital of France.", "Paris", "u0", "list",
           <<Topic(TRUE, "", ""), Topic(TRUE, "t2", "u2"),
             Topic(FALSE, "", ""), Topic(TRUE, "t4", "u4")>>),
      Body("list", "", "", "", "missing", <<>>),
      Body("dict", "", "", "", "null", <<>>) }

\* No search call is pending.
NoSearch == [kind |-> "none", body |-> EmptyBody]

SearchOutcomes ==
    {[kind |-> k, body |-> EmptyBody] :
        k \in {"network_error", "timeout", "http_status", "bad_json"}}
    \cup {[kind |-> "ok", body |-> b] : b \in RunBodies}

VData(label, score, facts, expl) ==
    [label |-> label, entailment_score |-> score, extracted_facts |-> facts,
     explanation |-> expl]

RunScores == {JNum(20), JNum(90)}

VerifyData ==
    {VData(JStr(lb), sc, JDict("{facts}"), JStr("why")) : lb \in Labels, sc \in RunScores}
    \cup {VData(lb, JNum(90), JDict("{facts}"), JStr("why")) :
            lb \in {JMissing, JNull, JStr("support"), JStr("maybe"), JNum(1)}}
    \cup {VData(JStr("SUPPORT"), sc, JDict("{facts}"), JStr("why")) :
            sc \in {JMissing, JNull, JStr("0.9"), JStr("high"), JNum(150), JNum(-20),
                    JNaN, JList(<<"x">>)}}
    \cup {VData(JStr("CONTRADICT"), JNum(90), fc, JStr("why")) :
            fc \in {JMissing, JNull, JList(<<"x">>), JStr("none")}}
    \cup {VData(JStr("NEUTRAL"), JNum(20), JDict("{facts}"), ex) :
            ex \in {JMissing, JNull, JList(<<"x">>)}}

SData(summary, text, ov) == [summary |-> summary, text |-> text, overall |-> ov]

SummaryData ==
    { SData(JStr("sum"), JMissing, JMissing),
      SData(JStr(""), JMissing, JMissing),
      SData(JMissing, JNull, JStr("ovr")),
      SData(JList(<<"x">>), JMissing, JMissing) }

\* ------------------------------------------------------------------ actions
Init ==
    /\ pc = "extract"
    /\ GROK_API_KEY \in BOOLEAN
    /\ claims = <<>>
    /\ idx = 0
    /\ evidence = <<>>
    /\ verification = NoVerification
    /\ verdict = NoVerdict
    /\ verifications = <<>>
    /\ overall = JNull
    /\ response = NoResponse
    /\ failure = NoFailure
    /\ calls = <<>>
    /\ summaryArg = <<>>
    /\ llmFault = FALSE
    /\ lastLLM = "none"
    /\ raw_claims = <<>>
    /\ max_results = DEFAULT_MAX_RESULTS
    /\ search = NoSearch

\* What the history variables record of one LLM call (none is made without a
\* key: _call_grok_api raises before it).
NoJsonObject(text) ==
    text # <<"{", "kv", "}">> /\ BraceSlice(text) # <<"{", "kv", "}">>

Faulty(outcome) ==
    /\ GROK_API_KEY
    /\ outcome.kind \in {"transport", "http_status"} \/ NoJsonObject(outcome.text)

Parsed(outcome) ==
    IF ~GROK_API_KEY \/ outcome.kind # "text" THEN "none"
    ELSE IF ~NoJsonObject(outcome.text) THEN "object"
    ELSE IF outcome.text = <<"[]">> THEN "array"
    ELSE "none"

Raise(at, error, status) ==
    /\ pc' = "failed"
    /\ failure' = [at |-> at, error |-> error, status |-> status]

\* claims = await extract_claims(req.text, language=req.language)
ExtractClaims ==
    /\ pc = "extract"
    /\ \E outcome \in LLMOutcomes, data \in ExtractData :
        LET r == extract_claims(GROK_API_KEY, outcome, data)
        IN  /\ calls' = Append(calls, Call("Extractor", 0))
            /\ llmFault' = (llmFault \/ Faulty(outcome))
            /\ lastLLM' = Parsed(outcome)
            /\ IF r.ok
               THEN /\ claims' = r.claims
                    /\ pc' = StepAfter(pc, 0, r.claims)
                    /\ idx' = IF r.claims = <<>> THEN 0 ELSE 1
                    /\ UNCHANGED failure
               ELSE /\ Raise("Extractor", r.error, r.status)
                    /\ UNCHANGED <<claims, idx>>
    /\ UNCHANGED <<raw_claims, max_results, search>>
    /\ UNCHANGED <<GROK_API_KEY, evidence, verification, verdict, verifications, overall,
                   response, summaryArg>>

\* The early return of verify() when no claim was extracted.
ReturnNoClaims ==
    /\ pc = "no_claims"
    /\ response' = VerifyResponse(<<>>, <<>>, FALLBACK_SUMMARY)
    /\ pc' = StepAfter(pc, idx, claims)
    /\ UNCHANGED <<raw_claims, max_results, search>>
    /\ UNCHANGED <<GROK_API_KEY, claims, idx, evidence, verification, verdict,
                   verifications, overall, failure, calls, summaryArg, llmFault, lastLLM>>

\* evidence = await retrieve_evidence_for_claim(claim)
RetrieveEvidence ==
    /\ pc = "retrieve"
    /\ \E res \in SearchOutcomes :
        LET r == retrieve_evidence_for_claim(claims[idx], DEFAULT_MAX_RESULTS, res)
        IN  /\ calls' = Append(calls, Call("Retriever", idx))
            /\ IF r.ok
               THEN /\ evidence' = r.snippets
                    /\ pc' = StepAfter(pc, idx, claims)
                    /\ UNCHANGED failure
               ELSE /\ Raise("Retriever", r.error, HTTP_500)
                    /\ UNCHANGED evidence
    /\ UNCHANGED <<raw_claims, max_results, search>>
    /\ UNCHANGED <<GROK_API_KEY, claims, idx, verification, verdict, verifications,
                   overall, response, summaryArg, llmFault, lastLLM>>

\* verification = await verify_claim_with_evidence(claim, evidence, ...)
VerifyClaim ==
    /\ pc = "verify"
    /\ \E outcome \in LLMOutcomes, data \in VerifyData :
        LET r == verify_claim_with_evidence(GROK_API_KEY, claims[idx], evidence,
                                            outcome, data)
        IN  /\ calls' = Append(calls, Call("Verifier", idx))
            /\ llmFault' = (llmFault \/ Faulty(outcome))
            /\ lastLLM' = Parsed(outcome)
            /\ IF r.ok
               THEN /\ verification' = r.verification
                    /\ pc' = StepAfter(pc, idx, claims)
                    /\ UNCHANGED failure
               ELSE /\ Raise("Verifier", r.error, r.status)
                    /\ UNCHANGED verification
    /\ UNCHANGED <<raw_claims, max_results, search>>
    /\ UNCHANGED <<GROK_API_KEY, claims, idx, evidence, verdict, verifications, overall,
                   response, summaryArg>>

\* verdict = aggregate_verdict(claim, verification)
AggregateVerdict ==
    /\ pc = "aggregate"
    /\ verdict' = aggregate_verdict(claims[idx], verification)
    /\ calls' = Append(calls, Call("Aggregator", idx))
    /\ pc' = StepAfter(pc, idx, claims)
    /\ UNCHANGED <<raw_claims, max_results, search>>
    /\ UNCHANGED <<GROK_API_KEY, claims, idx, evidence, verification, verifications,
                   overall, response, failure, summaryArg, llmFault, lastLLM>>

\* verifications.append(verdict), and the loop's step to the next claim.
AppendVerdict ==
    /\ pc = "append"
    /\ verifications' = AppendTo(verifications, verdict)
    /\ pc' = StepAfter(pc, idx, claims)
    /\ idx' = IF StepAfter(pc, idx, claims) = "summarize" THEN idx ELSE idx + 1
    /\ UNCHANGED <<raw_claims, max_results, search>>
    /\ UNCHANGED <<GROK_API_KEY, claims, evidence, verification, verdict, overall,
                   response, failure, calls, summaryArg, llmFault, lastLLM>>

\* overall = await summarize_overall(verifications, language=req.language)
Summarize ==
    /\ pc = "summarize"
    /\ \E outcome \in LLMOutcomes, data \in SummaryData :
        LET r == summarize_overall(GROK_API_KEY, verifications, outcome, data)
        IN  /\ calls' = Append(calls, Call("Summary", 0))
            /\ summaryArg' = verifications
            /\ llmFault' = (llmFault \/ Faulty(outcome))
            /\ lastLLM' = Parsed(outcome)
            /\ IF r.ok
               THEN /\ overall' = r.summary
                    /\ pc' = StepAfter(pc, idx, claims)
                    /\ UNCHANGED failure
               ELSE /\ Raise("Summary", r.error, r.status)
                    /\ UNCHANGED overall
    /\ UNCHANGED <<raw_claims, max_results, search>>
    /\ UNCHANGED <<GROK_API_KEY, claims, idx, evidence, verification, verdict,
                   verifications, response>>

\* return VerifyResponse(...): overall_summary is declared str.
ReturnResponse ==
    /\ pc = "respond"
    /\ IF ValidStr(overall)
       THEN /\ response' = VerifyResponse(claims, verifications, overall.s)
            /\ pc' = StepAfter(pc, idx, claims)
            /\ UNCHANGED failure
       ELSE /\ Raise("Response", "ValidationError", HTTP_500)
            /\ UNCHANGED response
    /\ UNCHANGED <<raw_claims, max_results, search>>
    /\ UNCHANGED <<GROK_API_KEY, claims, idx, evidence, verification, verdict,
                   verifications, overall, calls, summaryArg, llmFault, lastLLM>>

Next ==
    \/ ExtractClaims
    \/ ReturnNoClaims
    \/ RetrieveEvidence
    \/ VerifyClaim
    \/ AggregateVerdict
    \/ AppendVerdict
    \/ Summarize
    \/ ReturnResponse

Spec == Init /\ [][Next]_vars

\* ------------------------------------------- aggregate_verdict on its own
AggClaims ==
    { [claim_id |-> "c1", text |-> "Paris is the capital of France",
       claim_type |-> "categorical", tokens |-> DEFAULT_TOKENS,
       extracted_entities |-> <<>>, char_span |-> <<0, 0>>],
      [claim_id |-> "c2", text |-> "The tower was built in 1889",
       claim_type |-> "temporal", tokens |-> 7,
       extracted_entities |-> <<"1889">>, char_span |-> <<0, 27>>] }

\* Every claim with every ClaimVerification verify_claim_with_evidence can
\* return for it: a label of Labels and a score clamped to [0, 1].
AggInit ==
    /\ pc = "aggregate"
    /\ GROK_API_KEY = TRUE
    /\ \E c \in AggClaims : claims = <<c>>
    /\ idx = 1
    /\ evidence = <<>>
    /\ \E lb \in Labels, sc \in 0..ONE :
        verification = [claim_id |-> claims[1].claim_id, label |-> lb,
                        entailment_score |-> sc, extracted_facts |-> "{}",
                        explanation |-> "why", evidence_used |-> <<>>]
    /\ verdict = NoVerdict
    /\ verifications = <<>>
    /\ overall = JNull
    /\ response = NoResponse
    /\ failure = NoFailure
    /\ calls = <<Call("Extractor", 0), Call("Retriever", 1), Call("Verifier", 1)>>
    /\ summaryArg = <<>>
    /\ llmFault = FALSE
    /\ lastLLM = "object"
    /\ raw_claims = <<>>
    /\ max_results = DEFAULT_MAX_RESULTS
    /\ search = NoSearch

AggNext == AggregateVerdict

AggSpec == AggInit /\ [][AggNext]_vars

\* ------------------------------------------------------------------- claims
\* The verdict aggregate_verdict has just computed from `verification`.
Aggregated == pc = "append"

\* C1: every run that returns a response returns as many verdicts as claims,
\* and the i-th verdict carries the claim_id of the i-th claim.
C1_OrderPreserved ==
    response.returned =>
        /\ Len(response.verifications) = Len(response.claims)
        /\ \A i \in 1..Len(response.claims) :
            response.verifications[i].claim_id = response.claims[i].claim_id

C1_Witness ==
    /\ response.returned
    /\ Len(response.claims) >= 2
    /\ response.claims[1].claim_id # response.claims[2].claim_id

\* C2: a run whose extraction yields no claims returns empty claims, empty
\* verifications and the fixed fallback summary, and invokes no Retriever,
\* Verifier or Summary Generator at any point.
C2_ZeroClaims ==
    (pc \in {"no_claims", "done"} /\ claims = <<>>) =>
        /\ \A k \in 1..Len(calls) : calls[k].op \notin {"Retriever", "Verifier", "Summary"}
        /\ pc = "done" =>
            /\ response.returned
            /\ response.claims = <<>>
            /\ response.verifications = <<>>
            /\ response.overall_summary = "No factual claims were detected in the input."

C2_Witness == pc = "done" /\ claims = <<>> /\ response.returned

\* C3 as stated: SUPPORT with score s aggregates to score s, confidence
\* max(0.8, s) and verdict TRUE.
C3_SupportAsStated ==
    (Aggregated /\ verification.label = "SUPPORT") =>
        /\ verdict.score = verification.entailment_score
        /\ verdict.confidence = Max(80, verification.entailment_score)
        /\ verdict.verdict = "TRUE"

\* C3 amended: SUPPORT with score s in [0,1] aggregates to score s, confidence
\* max(0.1, s), and verdict VERIFIED when s >= 0.70, UNVERIFIED otherwise.
C3_SupportAmended ==
    (Aggregated /\ verification.label = "SUPPORT") =>
        /\ verdict.score = verification.entailment_score
        /\ verdict.confidence = Max(10, verification.entailment_score)
        /\ verdict.verdict =
            IF verification.entailment_score >= 70 THEN "VERIFIED" ELSE "UNVERIFIED"

C3_Witness ==
    /\ Aggregated
    /\ verification.label = "SUPPORT"
    /\ verification.entailment_score = 70
    /\ verdict.verdict = "VERIFIED"

\* C4 as stated: CONTRADICT with score c aggregates to score 0, confidence
\* max(0.8, c) and verdict FALSE.
C4_ContradictAsStated ==
    (Aggregated /\ verification.label = "CONTRADICT") =>
        /\ verdict.score = 0
        /\ verdict.confidence = Max(80, verification.entailment_score)
        /\ verdict.verdict = "FALSE"

\* C4 amended: CONTRADICT with score c in [0,1] aggregates to score 0,
\* confidence 0.10 and verdict UNVERIFIED.
C4_ContradictAmended ==
    (Aggregated /\ verification.label = "CONTRADICT") =>
        /\ verdict.score = 0
        /\ verdict.confidence = 10
        /\ verdict.verdict = "UNVERIFIED"

C4_Witness ==
    /\ Aggregated
    /\ verification.label = "CONTRADICT"
    /\ verification.entailment_score = 95
    /\ verdict.confidence = 10

\* C5: NEUTRAL aggregates to confidence 0.10 and verdict UNVERIFIED whatever
\* its score.
C5_Neutral ==
    (Aggregated /\ verification.label = "NEUTRAL") =>
        /\ verdict.confidence = 10
        /\ verdict.verdict = "UNVERIFIED"

C5_Witness ==
    /\ Aggregated
    /\ verification.label = "NEUTRAL"
    /\ verification.entailment_score = 90
    /\ verdict.verdict = "UNVERIFIED"

\* C6: once any LLM call of the run (extraction, a verification, the summary)
\* has failed in transport, returned a non-2xx status or returned text holding
\* no JSON object, the run has ended in failure and no response is returned.
C6_LLMFailureAborts ==
    llmFault => (pc = "failed" /\ ~response.returned /\ response = NoResponse)

C6_Witness ==
    /\ llmFault
    /\ Len(verifications) >= 1
    /\ failure.at \in {"Verifier", "Summary"}
    /\ ~response.returned

\* C7 as stated: whatever the search call's outcome, retrieval hands back a
\* snippet sequence and the run goes on to verify that claim.
C7_RetrieveNeverFails ==
    (calls # <<>> /\ calls[Len(calls)].op = "Retriever") =>
        (pc = "verify" /\ failure = NoFailure)

\* C8: claims are processed one after the other, each as retrieve, verify,
\* aggregate: a retrieval of claim i+1 directly follows the aggregation of
\* claim i (whose verdict is appended by then), a verification of claim i
\* directly follows its retrieval, an aggregation its verification.
C8_Sequential ==
    /\ \A k \in 1..Len(calls) :
        LET c == calls[k]
        IN  /\ c.op = "Retriever" =>
                /\ k > 1
                /\ calls[k - 1] =
                    IF c.i = 1 THEN Call("Extractor", 0) ELSE Call("Aggregator", c.i - 1)
            /\ c.op = "Verifier" => (k > 1 /\ calls[k - 1] = Call("Retriever", c.i))
            /\ c.op = "Aggregator" => (k > 1 /\ calls[k - 1] = Call("Verifier", c.i))
    /\ pc \in {"retrieve", "verify", "aggregate", "append"} =>
        Len(verifications) = idx - 1

C8_Witness ==
    /\ \E k \in 1..Len(calls) : calls[k] = Call("Aggregator", 2)
    /\ Len(verifications) = 2

CountCalls(op) == Cardinality({k \in 1..Len(calls) : calls[k].op = op})

C9_Edges ==
    { <<"extract", "no_claims">>, <<"no_claims", "done">>,
      <<"extract", "retrieve">>, <<"retrieve", "verify">>, <<"verify", "aggregate">>,
      <<"aggregate", "append">>, <<"append", "retrieve">>, <<"append", "summarize">>,
      <<"summarize", "respond">>, <<"respond", "done">> }

C9_Aborts == {<<p, "failed">> : p \in {"extract", "retrieve", "verify", "summarize", "respond"}}

C9_State ==
    /\ CountCalls("Extractor") = IF pc = "extract" THEN 0 ELSE 1
    /\ calls # <<>> => calls[1].op = "Extractor"
    /\ CountCalls("Summary") <= 1
    /\ CountCalls("Summary") = 1 =>
        /\ claims # <<>>
        /\ calls[Len(calls)].op = "Summary"
        /\ Len(verifications) = Len(claims)
        /\ CountCalls("Aggregator") = Len(claims)
        /\ summaryArg = verifications
    /\ pc = "done" =>
        /\ response.returned
        /\ CountCalls("Summary") = IF claims = <<>> THEN 0 ELSE 1

C9_Step == (pc' # pc) => (<<pc, pc'>> \in C9_Edges \cup C9_Aborts)

\* C9: a run moves only along RECEIVED/EXTRACTING -> NO_CLAIMS -> DONE or
\* EXTRACTING -> per-claim loop -> SUMMARIZING -> DONE (or aborts); extraction
\* happens once and first; the Summary Generator is called at most once, only
\* after a verdict is appended for every claim, over the whole verdict list,
\* and exactly once in a run with at least one claim that returns.
C9_StateMachine ==
    /\ [](C9_State)
    /\ [][C9_Step]_vars

C9_Witness ==
    /\ pc = "done"
    /\ Len(claims) >= 2
    /\ CountCalls("Summary") = 1
    /\ Len(summaryArg) = Len(claims)

\* C10 as stated: once the Verifier's LLM response parsed to a JSON object,
\* verify_claim_with_evidence returns a ClaimVerification and does not fail.
C10_VerifierNeverFailsOnObject ==
    ~(pc = "failed" /\ failure.at = "Verifier" /\ lastLLM = "object")

\* --------------------------------------------- extract_claims on its own
\* Longest list of raw entries the LLM returns.
MaxRaw == 3

Fact1 == "Paris is the capital of France"
Fact2 == "The tower was built in 1889"

\* Raw entries: well-formed ones with and without a claim_id and with and
\* without the optional fields, and malformed ones.
RawEntries ==
    { Entry(TRUE, JMissing, JStr(Fact1), JMissing, JMissing, JMissing, JMissing),
      Entry(TRUE, JStr("c2"), JStr(Fact2), JStr("temporal"), JNum(7),
            JList(<<"1889">>), JList(<<0, 27>>)),
      Entry(TRUE, JStr("c1"), JStr(Fact1), JMissing, JStr("12"), JMissing, JList(<<0, 30>>)),
      Entry(TRUE, JStr(""), JStr(Fact2), JStr("temporal"), JMissing, JList(<<"1889">>),
            JMissing),
      Entry(TRUE, JStr("c9"), JMissing, JStr("causal"), JNum(3), JMissing, JMissing),
      Entry(TRUE, JMissing, JMissing, JMissing, JMissing, JMissing, JMissing),
      Entry(TRUE, JMissing, JNull, JMissing, JMissing, JMissing, JMissing),
      Entry(TRUE, JMissing, JStr(Fact1), JMissing, JStr("many"), JMissing, JMissing),
      Entry(FALSE, JMissing, JMissing, JMissing, JMissing, JMissing, JMissing) }

ExtractInit ==
    /\ pc = "parse_claims"
    /\ GROK_API_KEY = TRUE
    /\ raw_claims \in SeqsUpTo(RawEntries, MaxRaw)
    /\ claims = <<>>
    /\ idx = 0
    /\ evidence = <<>>
    /\ verification = NoVerification
    /\ verdict = NoVerdict
    /\ verifications = <<>>
    /\ overall = JNull
    /\ response = NoResponse
    /\ failure = NoFailure
    /\ calls = <<Call("Extractor", 0)>>
    /\ summaryArg = <<>>
    /\ llmFault = FALSE
    /\ lastLLM = "object"
    /\ max_results = DEFAULT_MAX_RESULTS
    /\ search = NoSearch

\* The loop of extract_claims over raw_claims, and its return.
ParseRawClaims ==
    /\ pc = "parse_claims"
    /\ claims' = ParseClaims(raw_claims)
    /\ pc' = "parsed"
    /\ UNCHANGED <<raw_claims, max_results, search>>
    /\ UNCHANGED <<GROK_API_KEY, idx, evidence, verification, verdict, verifications,
                   overall, response, failure, calls, summaryArg, llmFault, lastLLM>>

ExtractNext == ParseRawClaims

ExtractSpec == ExtractInit /\ [][ExtractNext]_vars

\* C11 as stated: the claim_ids of the claims extract_claims returns are
\* pairwise distinct, whatever raw entries the LLM returned.
C11_UniqueClaimIds ==
    pc = "parsed" =>
        \A i, j \in 1..Len(claims) : claims[i].claim_id = claims[j].claim_id => i = j

\* An entry without the required text.
C12_MissingText(c) == c.isdict /\ c.text.t = "missing"

\* An entry with a text, each other field absent or of its declared type.
C12_WellFormed(c) ==
    /\ c.isdict
    /\ c.text.t = "str"
    /\ c.claim_id.t \in {"missing", "str"}
    /\ c.claim_type.t \in {"missing", "str"}
    /\ c.tokens.t \in {"missing", "num"} \/ c.tokens = JStr("12")
    /\ c.extracted_entities.t \in {"missing", "list"}
    /\ c.char_span.t \in {"missing", "list"}

\* C12: extract_claims drops the malformed entries (those missing text among
\* them) without failing, returns the well-formed ones in their original
\* order, and fills claim_type, tokens, extracted_entities and char_span of an
\* entry lacking them with "categorical", 10, [] and [0, 0].
C12_MalformedDropped ==
    pc = "parsed" =>
        LET kept == SelectSeq(raw_claims, C12_WellFormed)
        IN  /\ failure = NoFailure
            /\ \A k \in 1..Len(raw_claims) :
                C12_MissingText(raw_claims[k]) => ~C12_WellFormed(raw_claims[k])
            /\ Len(claims) = Len(kept)
            /\ \A k \in 1..Len(kept) :
                /\ claims[k].text = kept[k].text.s
                /\ claims[k].claim_type =
                    IF kept[k].claim_type.t = "missing" THEN "categorical"
                    ELSE kept[k].claim_type.s
                /\ kept[k].tokens.t = "missing" => claims[k].tokens = 10
                /\ kept[k].tokens.t = "num" => claims[k].tokens = kept[k].tokens.n
                /\ claims[k].extracted_entities =
                    IF kept[k].extracted_entities.t = "missing" THEN <<>>
                    ELSE kept[k].extracted_entities.l
                /\ claims[k].char_span =
                    IF kept[k].char_span.t = "missing" THEN <<0, 0>>
                    ELSE kept[k].char_span.l

C12_Witness ==
    /\ pc = "parsed"
    /\ Len(raw_claims) = 3
    /\ C12_WellFormed(raw_claims[1]) /\ raw_claims[1].claim_type.t = "str"
    /\ C12_MissingText(raw_claims[2])
    /\ C12_WellFormed(raw_claims[3]) /\ raw_claims[3].tokens.t = "missing"
    /\ raw_claims[3].claim_type.t = "missing"
    /\ Len(claims) = 2
    /\ claims[2].claim_type = "categorical"

\* ------------------------------- retrieve_evidence_for_claim on its own
\* Longest RelatedTopics list of a search body.
MaxTopics == 4
\* Largest max_results passed.
MaxResults == 6

\* A related topic at provider position k: one with its own Text, one whose
\* Text repeats another's, a category group without Text, a non-dict item.
TopicKinds == {"text", "dup", "group", "nondict"}

TopicAt(k, kind) ==
    CASE kind = "text" -> Topic(TRUE, "t" \o ToString(k), "u" \o ToString(k))
      [] kind = "dup" -> Topic(TRUE, "same", "u0")
      [] kind = "group" -> Topic(TRUE, "", "")
      [] OTHER -> Topic(FALSE, "", "")

TopicLists ==
    UNION {{[k \in 1..n |-> TopicAt(k, f[k])] : f \in [1..n -> TopicKinds]} :
             n \in 0..MaxTopics}

RetrieveBodies ==
    {Body("dict", a, "Paris", "u", "list", ts) :
        a \in {"", "Paris is the capital of France."}, ts \in TopicLists}

RetrieveAnswers ==
    {[kind |-> k, body |-> EmptyBody] :
        k \in {"network_error", "timeout", "http_status", "bad_json"}}
    \cup {[kind |-> "ok", body |-> b] : b \in RetrieveBodies}

RetrieveInit ==
    /\ pc = "call_retrieve"
    /\ GROK_API_KEY = TRUE
    /\ raw_claims = <<>>
    /\ \E c \in AggClaims : claims = <<c>>
    /\ idx = 1
    /\ max_results \in 1..MaxResults
    /\ search \in RetrieveAnswers
    /\ evidence = <<>>
    /\ verification = NoVerification
    /\ verdict = NoVerdict
    /\ verifications = <<>>
    /\ overall = JNull
    /\ response = NoResponse
    /\ failure = NoFailure
    /\ calls = <<Call("Extractor", 0)>>
    /\ summaryArg = <<>>
    /\ llmFault = FALSE
    /\ lastLLM = "object"

\* One call of retrieve_evidence_for_claim(claim, max_results).
RetrieveAlone ==
    /\ pc = "call_retrieve"
    /\ LET r == retrieve_evidence_for_claim(claims[idx], max_results, search)
       IN  /\ calls' = Append(calls, Call("Retriever", idx))
           /\ IF r.ok
              THEN /\ evidence' = r.snippets
                   /\ pc' = "retrieved"
                   /\ UNCHANGED failure
              ELSE /\ Raise("Retriever", r.error, HTTP_500)
                   /\ UNCHANGED evidence
    /\ UNCHANGED <<raw_claims, max_results, search>>
    /\ UNCHANGED <<GROK_API_KEY, claims, idx, verification, verdict, verifications,
                   overall, response, summaryArg, llmFault, lastLLM>>

RetrieveNext == RetrieveAlone

RetrieveSpec == RetrieveInit /\ [][RetrieveNext]_vars

C13_HasText(tp) == tp.isdict /\ tp.Text # ""

\* C13 as stated: for every max_results the result is the abstract snippet
\* (first, when the body has one) followed by at most max_results - 2
\* related-topic snippets, which are the first text-bearing topics of the
\* body in provider order, repeats included.
C13_AbstractThenTopics ==
    (pc = "retrieved" /\ search.kind = "ok") =>
        LET hasAbs == search.body.Abstract # ""
            texts == SelectSeq(search.body.RelatedTopics, C13_HasText)
            rest == IF hasAbs /\ evidence # <<>> THEN Tail(evidence) ELSE evidence
        IN  /\ hasAbs => (evidence # <<>> /\ evidence[1].snippet = search.body.Abstract)
            /\ Len(rest) <= Len(texts)
            /\ \A k \in 1..Len(rest) : rest[k].snippet = texts[k].Text
            /\ Len(rest) <= Max(0, max_results - 2)

\* C14: at most one of S and C is non-zero, so the verdict is never
\* PARTIALLY_SUPPORTED: it is VERIFIED exactly when the label is SUPPORT and
\* the score is at least 0.70, and UNVERIFIED in every other case, every
\* CONTRADICT included.
C14_NeverPartial ==
    Aggregated =>
        /\ SupportScore(verification) = 0 \/ ContradictScore(verification) = 0
        /\ verdict.verdict # "PARTIALLY_SUPPORTED"
        /\ verdict.verdict = "VERIFIED" <=>
            (verification.label = "SUPPORT" /\ verification.entailment_score >= 70)
        /\ verdict.verdict # "VERIFIED" => verdict.verdict = "UNVERIFIED"
        /\ verification.label = "CONTRADICT" => verdict.verdict = "UNVERIFIED"

C14_Witness ==
    /\ Aggregated
    /\ verification.label = "CONTRADICT"
    /\ verification.entailment_score = ONE
    /\ verdict.verdict = "UNVERIFIED"
    /\ verdict.score = 0

====
